---- MODULE Spec2Model ----
(***************************************************************************)
(* A model of the command-relay broker of src/app.py: the three in-memory  *)
(* dicts (command_queue, results_store, device_last_seen), the upload      *)
(* directory, the Flask request handlers run by concurrent worker threads  *)
(* (one step per source statement) and the cleanup thread.                 *)
(*                                                                         *)
(* Time is counted in ticks of ten minutes: DEVICE_TIMEOUT is one tick and *)
(* RESULT_EXPIRY six.                                                      *)
(***************************************************************************)
EXTENDS Integers, Sequences, FiniteSets, TLC

\* ----------------------------------------------------------------- bounds
MaxResultTicks == 3 \* advances of the clock, of RESULT_EXPIRY / 2 each, beside the sweeps
MaxSweeps == 1      \* sweeps of the cleanup thread
MaxPollTime == 2    \* the clock's last tick in the specifications of the queues
MaxCmds == 3        \* enqueue requests served by one worker
MaxPolls == 3       \* poll requests served by one worker
MaxRaceCmds == 2    \* enqueue requests served by two racing workers
MaxRacePolls == 2   \* poll requests served by two racing workers
MaxLiveCmds == 1    \* enqueue requests served beside the status views
MaxSubmits == 2     \* submit requests served
MaxFetchSubmits == 1 \* submit requests served beside fetches and sweeps
MaxLists == 5       \* list objects allocated
MaxIsoOps == 3      \* enqueues and polls, together, served by two racing workers
MaxAllOps == 3      \* enqueues, polls, submits and sweeps, together, beside every other operation

\* ------------------------------------------------------ program constants
DEVICE_TIMEOUT == 1
RESULT_EXPIRY == 6

\* ----------------------------------------------------------------- inputs
Devices == {"dev1", "dev2"}
Actions == {"ping"}
NoParams == "{}"
\* The bodies of POST /command: no JSON, an empty object, objects without one
\* of the keys, and objects with both, the values empty or not.
CommandRequests ==
    {[json |-> "none"],
     [json |-> "object", data |-> <<>>],
     [json |-> "object", data |-> [device_id |-> "dev1"]],
     [json |-> "object", data |-> [action |-> "ping"]],
     [json |-> "object", data |-> [device_id |-> "dev1", action |-> "ping"]],
     [json |-> "object", data |-> [device_id |-> "", action |-> "ping"]],
     [json |-> "object", data |-> [device_id |-> "dev1", action |-> ""]]}
CommandIds == {<<"c1">>, <<"c1", "_", "x">>}
Filenames == {<<"f">>, <<"x", "_", "f">>}
Blobs == {"b1", "b2"}
JsonValues == {"j1", "j2"}
SubmitRequests ==
    [kind : {"file"}, filename : Filenames, bytes : Blobs]
        \cup [kind : {"json"}, data : JsonValues]
        \cup {[kind |-> "empty"]}
\* Submit requests of every form: a named blob with and without content, an
\* unnamed blob, truthy and falsy structured payloads, and neither.
AnySubmitRequests ==
    {[kind |-> "file", filename |-> <<"f">>, bytes |-> "b1"],
     [kind |-> "file", filename |-> <<"f">>, bytes |-> ""],
     [kind |-> "file", filename |-> <<>>, bytes |-> "b1"],
     [kind |-> "json", data |-> "j1"],
     [kind |-> "json", data |-> "{}"],
     [kind |-> "json", data |-> "0"],
     [kind |-> "empty"]}
\* The submit requests beside fetches and the sweeper.
FetchRequests ==
    {[kind |-> "file", filename |-> <<"f">>, bytes |-> "b1"],
     [kind |-> "json", data |-> "j1"]}
\* The submit requests beside the sweeper: one blob, one payload.
SweepRequests ==
    [kind : {"file"}, filename : Filenames, bytes : {"b1"}]
        \cup {[kind |-> "json", data |-> "j1"], [kind |-> "empty"]}
\* The submit requests beside a sweeper whose releases may fail.
ReleaseRequests ==
    {[kind |-> "file", filename |-> <<"f">>, bytes |-> "b1"],
     [kind |-> "json", data |-> "j1"]}
\* The submit requests beside every other operation: one blob.
AllRequests == {[kind |-> "file", filename |-> <<"f">>, bytes |-> "b1"]}
Threads == {1, 2}
SeqThreads == {1}

VARIABLES
    now,              \* the wall clock read by datetime.now()
    command_queue,    \* dict device_id -> reference to a list object
    lists,            \* the heap of list objects: reference -> its elements
    device_last_seen, \* dict device_id -> timestamp
    pc,               \* per worker thread: the statement it is about to run
    frame,            \* per worker thread: the handler's local variables
    resp,             \* per worker thread: the response of its last request
    next_uuid,        \* the number of uuid4() values drawn so far
    appended,         \* history: <<command id, device>> in the order line 73 appended them
    acked,            \* history: command ids whose enqueue has returned
    delivered,        \* history: command id -> number of poll outputs holding it
    lastOp,           \* history: device -> last completed queue operation
    npolls,           \* history: number of polls started
    results_store,    \* dict command_id -> result entry
    results_order,    \* the insertion order of results_store's keys
    files,            \* the upload directory: path -> bytes
    cleanup,          \* the cleanup thread: its statement and local variables
    nsubmits,         \* history: number of submits started
    nsweeps,          \* history: number of sweeps started
    lastSubmit,       \* history: the last completed submit, until the next change
    fetched,          \* history: command id -> the value last fetched since a change
    sweep,            \* history: the running or last sweep
    evicted,          \* history: the last entry the sweeper deleted
    released,         \* history: the last file the sweeper removed
    bound             \* the bounds of the specification being run (never changes)

\* The result store, the upload directory, the cleanup thread and their history.
resultVars == <<results_store, results_order, files, cleanup, nsubmits, nsweeps,
                lastSubmit, fetched, sweep, evicted, released>>

\* The command queues, the liveness records and their history.
queueVars == <<command_queue, lists, device_last_seen,
               next_uuid, appended, acked, delivered, lastOp, npolls>>

\* What the program itself stores.
storeVars == <<command_queue, lists, device_last_seen, results_store,
               results_order, files>>

vars == <<now, pc, frame, resp, bound, queueVars, resultVars>>

\* ---------------------------------------------------------------- helpers
Range(s) == {s[i] : i \in 1..Len(s)}

NoFrame == [op |-> "none"]
NoResp == [kind |-> "none"]
NoSubmit == [kind |-> "none"]
NoSweep == [kind |-> "none"]
NoEvent == [kind |-> "none"]

\* The cleanup thread inside time.sleep(300) of line 22.
Sleeping == [pc |-> "sleep"]

\* The elements of the list object the dict holds for device d (<<>> if absent).
QueueOf(d) == IF d \in DOMAIN command_queue THEN lists[command_queue[d]] ELSE <<>>

\* Python truthiness of a list: non-empty.
Truthy(l) == Len(l) > 0

Init(b) ==
    /\ bound = b
    /\ now = 0
    /\ command_queue = <<>>
    /\ lists = <<>>
    /\ device_last_seen = <<>>
    /\ pc = [t \in Threads |-> "idle"]
    /\ frame = [t \in Threads |-> NoFrame]
    /\ resp = [t \in Threads |-> NoResp]
    /\ next_uuid = 0
    /\ appended = <<>>
    /\ acked = {}
    /\ delivered = <<>>
    /\ lastOp = [d \in Devices |-> "none"]
    /\ npolls = 0
    /\ results_store = <<>>
    /\ results_order = <<>>
    /\ files = <<>>
    /\ cleanup = Sleeping
    /\ nsubmits = 0
    /\ nsweeps = 0
    /\ lastSubmit = NoSubmit
    /\ fetched = <<>>
    /\ sweep = NoSweep
    /\ evicted = NoEvent
    /\ released = NoEvent

\* The clock advances between any two statements.
Tick ==
    /\ now + bound.step <= bound.time
    /\ now' = now + bound.step
    /\ UNCHANGED <<command_queue, lists, device_last_seen, pc, frame, resp,
                   next_uuid, appended, acked, delivered, lastOp, npolls, bound, resultVars>>

\* ------------------------------------------------- post_command (52 - 79)
\* Lines 55-68, for a request that carries device_id and action: the id is
\* drawn and the command built (its timestamp, which the program never reads
\* again, is left out).
post_command_build(t, d, a) ==
    /\ pc[t] = "idle"
    /\ next_uuid < bound.cmds
    /\ next_uuid' = next_uuid + 1
    /\ frame' = [frame EXCEPT ![t] =
            [op |-> "post_command", device_id |-> d,
             command |-> [id |-> next_uuid + 1, action |-> a,
                          params |-> NoParams]]]
    /\ pc' = [pc EXCEPT ![t] = "pc70"]
    /\ resp' = [resp EXCEPT ![t] = NoResp]
    /\ UNCHANGED <<now, command_queue, lists, device_last_seen,
                   appended, acked, delivered, lastOp, npolls, bound, resultVars>>

\* Line 70: if device_id not in command_queue
post_command_test(t) ==
    /\ pc[t] = "pc70"
    /\ pc' = [pc EXCEPT ![t] =
            IF frame[t].device_id \notin DOMAIN command_queue THEN "pc71" ELSE "pc73"]
    /\ UNCHANGED <<now, command_queue, lists, device_last_seen, frame, resp,
                   next_uuid, appended, acked, delivered, lastOp, npolls, bound, resultVars>>

\* A faulty variant of post_command_create: the device's first enqueue also
\* creates its liveness record.
post_command_create_seen(t) ==
    /\ pc[t] = "pc71"
    /\ Len(lists) < MaxLists
    /\ lists' = Append(lists, <<>>)
    /\ command_queue' = (frame[t].device_id :> (Len(lists) + 1)) @@ command_queue
    /\ device_last_seen' = (frame[t].device_id :> now) @@ device_last_seen
    /\ pc' = [pc EXCEPT ![t] = "pc73"]
    /\ UNCHANGED <<now, frame, resp,
                   next_uuid, appended, acked, delivered, lastOp, npolls, bound, resultVars>>

\* Line 71: command_queue[device_id] = []
post_command_create(t) ==
    /\ pc[t] = "pc71"
    /\ Len(lists) < MaxLists
    /\ lists' = Append(lists, <<>>)
    /\ command_queue' = (frame[t].device_id :> (Len(lists) + 1)) @@ command_queue
    /\ pc' = [pc EXCEPT ![t] = "pc73"]
    /\ UNCHANGED <<now, device_last_seen, frame, resp,
                   next_uuid, appended, acked, delivered, lastOp, npolls, bound, resultVars>>

\* Line 73: command_queue[device_id].append(command)
post_command_append(t) ==
    /\ pc[t] = "pc73"
    /\ LET r == command_queue[frame[t].device_id]
       IN lists' = [lists EXCEPT ![r] = Append(@, frame[t].command)]
    /\ appended' = Append(appended, <<frame[t].command.id, frame[t].device_id>>)
    /\ delivered' = (frame[t].command.id :> 0) @@ delivered
    /\ pc' = [pc EXCEPT ![t] = "pc75"]
    /\ UNCHANGED <<now, command_queue, device_last_seen, frame, resp,
                   next_uuid, acked, lastOp, npolls, bound, resultVars>>

\* Lines 75-79: the acknowledgement with the command id.
post_command_return(t) ==
    /\ pc[t] = "pc75"
    /\ resp' = [resp EXCEPT ![t] =
            [kind |-> "queued", status |-> 200, command_id |-> frame[t].command.id]]
    /\ acked' = acked \cup {frame[t].command.id}
    /\ lastOp' = [lastOp EXCEPT ![frame[t].device_id] = "enqueue"]
    /\ pc' = [pc EXCEPT ![t] = "idle"]
    /\ frame' = [frame EXCEPT ![t] = NoFrame]
    /\ UNCHANGED <<now, command_queue, lists, device_last_seen,
                   next_uuid, appended, delivered, npolls, bound, resultVars>>

post_command(t) ==
    \/ \E d \in Devices, a \in Actions : post_command_build(t, d, a)
    \/ post_command_test(t)
    \/ post_command_create(t)
    \/ post_command_append(t)
    \/ post_command_return(t)

\* Line 57: not data or 'device_id' not in data or 'action' not in data
invalid_command(r) ==
    \/ r.json = "none"
    \/ DOMAIN r.data = {}
    \/ "device_id" \notin DOMAIN r.data
    \/ "action" \notin DOMAIN r.data

\* Lines 55-58: the request body is read and refused with status 400, or the
\* handler goes on to build the command.
post_command_request(t, r) ==
    IF invalid_command(r)
    THEN /\ pc[t] = "idle"
         /\ resp' = [resp EXCEPT ![t] =
                 [kind |-> "error", status |-> 400, op |-> "post_command"]]
         /\ UNCHANGED <<now, pc, frame, bound, queueVars, resultVars>>
    ELSE post_command_build(t, r.data.device_id, r.data.action)

\* post_command for any request body.
post_command_any(t) ==
    \/ \E r \in CommandRequests : post_command_request(t, r)
    \/ post_command_test(t)
    \/ post_command_create(t)
    \/ post_command_append(t)
    \/ post_command_return(t)

\* ------------------------------------------------- get_commands (81 - 93)
\* Line 84, right-hand side: datetime.now() is evaluated.
get_commands_clock(t, d) ==
    /\ pc[t] = "idle"
    /\ npolls < bound.polls
    /\ npolls' = npolls + 1
    /\ frame' = [frame EXCEPT ![t] =
            [op |-> "get_commands", device_id |-> d, seen |-> now,
             prev |-> lastOp[d]]]
    /\ pc' = [pc EXCEPT ![t] = "gc84"]
    /\ resp' = [resp EXCEPT ![t] = NoResp]
    /\ UNCHANGED <<now, command_queue, lists, device_last_seen,
                   next_uuid, appended, acked, delivered, lastOp, bound, resultVars>>

\* Line 84, the store: device_last_seen[device_id] = <the value read>
get_commands_touch(t) ==
    /\ pc[t] = "gc84"
    /\ device_last_seen' = (frame[t].device_id :> frame[t].seen) @@ device_last_seen
    /\ pc' = [pc EXCEPT ![t] = "gc86"]
    /\ UNCHANGED <<now, command_queue, lists, frame, resp,
                   next_uuid, appended, acked, delivered, lastOp, npolls, bound, resultVars>>

\* A faulty variant of get_commands_test: the test of line 86 without `device_id not in
\* command_queue`, so that an unknown device falls through to line 90.
get_commands_test_nokey(t) ==
    /\ pc[t] = "gc86"
    /\ LET d == frame[t].device_id
       IN IF d \in DOMAIN command_queue /\ ~Truthy(lists[command_queue[d]])
          THEN /\ resp' = [resp EXCEPT ![t] =
                      [kind |-> "commands", status |-> 200, device_id |-> d,
                       commands |-> <<>>, prev |-> frame[t].prev,
                       seen |-> frame[t].seen]]
               /\ lastOp' = [lastOp EXCEPT ![d] = "poll"]
               /\ pc' = [pc EXCEPT ![t] = "idle"]
               /\ frame' = [frame EXCEPT ![t] = NoFrame]
          ELSE /\ pc' = [pc EXCEPT ![t] = "gc90"]
               /\ UNCHANGED <<resp, lastOp, frame>>
    /\ UNCHANGED <<now, command_queue, lists, device_last_seen,
                   next_uuid, appended, acked, delivered, npolls, bound, resultVars>>

\* Lines 86-87: absent or empty queue: the empty list is returned.
get_commands_test(t) ==
    /\ pc[t] = "gc86"
    /\ LET d == frame[t].device_id
       IN IF d \notin DOMAIN command_queue \/ ~Truthy(lists[command_queue[d]])
          THEN /\ resp' = [resp EXCEPT ![t] =
                      [kind |-> "commands", status |-> 200, device_id |-> d,
                       commands |-> <<>>, prev |-> frame[t].prev,
                       seen |-> frame[t].seen]]
               /\ lastOp' = [lastOp EXCEPT ![d] = "poll"]
               /\ pc' = [pc EXCEPT ![t] = "idle"]
               /\ frame' = [frame EXCEPT ![t] = NoFrame]
          ELSE /\ pc' = [pc EXCEPT ![t] = "gc90"]
               /\ UNCHANGED <<resp, lastOp, frame>>
    /\ UNCHANGED <<now, command_queue, lists, device_last_seen,
                   next_uuid, appended, acked, delivered, npolls, bound, resultVars>>

\* Line 90: commands = command_queue[device_id]  (a reference to the list;
\* a missing key raises KeyError, which Flask answers with status 500)
get_commands_read(t) ==
    /\ pc[t] = "gc90"
    /\ IF frame[t].device_id \in DOMAIN command_queue
       THEN /\ frame' = [frame EXCEPT ![t] =
                   [op |-> "get_commands", device_id |-> frame[t].device_id,
                    seen |-> frame[t].seen, prev |-> frame[t].prev,
                    commands |-> command_queue[frame[t].device_id]]]
            /\ pc' = [pc EXCEPT ![t] = "gc91"]
            /\ UNCHANGED <<resp, lastOp>>
       ELSE /\ resp' = [resp EXCEPT ![t] =
                   [kind |-> "error", status |-> 500, op |-> "get_commands",
                    device_id |-> frame[t].device_id, seen |-> frame[t].seen]]
            /\ lastOp' = [lastOp EXCEPT ![frame[t].device_id] = "poll"]
            /\ pc' = [pc EXCEPT ![t] = "idle"]
            /\ frame' = [frame EXCEPT ![t] = NoFrame]
    /\ UNCHANGED <<now, command_queue, lists, device_last_seen,
                   next_uuid, appended, acked, delivered, npolls, bound, resultVars>>

\* A faulty variant of get_commands_reset: line 91 left out, the queue is not cleared.
get_commands_reset_keep(t) ==
    /\ pc[t] = "gc91"
    /\ pc' = [pc EXCEPT ![t] = "gc93"]
    /\ UNCHANGED <<now, command_queue, lists, device_last_seen, frame, resp,
                   next_uuid, appended, acked, delivered, lastOp, npolls, bound, resultVars>>

\* A faulty variant of get_commands_reset: every device's queue is set to the
\* new empty list.
get_commands_reset_shared(t) ==
    /\ pc[t] = "gc91"
    /\ Len(lists) < MaxLists
    /\ lists' = Append(lists, <<>>)
    /\ command_queue' = [d \in DOMAIN command_queue |-> Len(lists) + 1]
    /\ pc' = [pc EXCEPT ![t] = "gc93"]
    /\ UNCHANGED <<now, device_last_seen, frame, resp,
                   next_uuid, appended, acked, delivered, lastOp, npolls, bound, resultVars>>

\* Line 91: command_queue[device_id] = []  (a new list object)
get_commands_reset(t) ==
    /\ pc[t] = "gc91"
    /\ Len(lists) < MaxLists
    /\ lists' = Append(lists, <<>>)
    /\ command_queue' = [command_queue EXCEPT ![frame[t].device_id] = Len(lists) + 1]
    /\ pc' = [pc EXCEPT ![t] = "gc93"]
    /\ UNCHANGED <<now, device_last_seen, frame, resp,
                   next_uuid, appended, acked, delivered, lastOp, npolls, bound, resultVars>>

\* Line 93: jsonify serialises the list object `commands` refers to.
get_commands_return(t) ==
    /\ pc[t] = "gc93"
    /\ LET out == lists[frame[t].commands]
       IN /\ resp' = [resp EXCEPT ![t] =
                 [kind |-> "commands", status |-> 200,
                  device_id |-> frame[t].device_id, commands |-> out,
                  prev |-> frame[t].prev, seen |-> frame[t].seen]]
          /\ delivered' = [i \in DOMAIN delivered |->
                 IF \E k \in 1..Len(out) : out[k].id = i
                 THEN delivered[i] + 1 ELSE delivered[i]]
    /\ lastOp' = [lastOp EXCEPT ![frame[t].device_id] = "poll"]
    /\ pc' = [pc EXCEPT ![t] = "idle"]
    /\ frame' = [frame EXCEPT ![t] = NoFrame]
    /\ UNCHANGED <<now, command_queue, lists, device_last_seen,
                   next_uuid, appended, acked, npolls, bound, resultVars>>

get_commands(t) ==
    \/ \E d \in Devices : get_commands_clock(t, d)
    \/ get_commands_touch(t)
    \/ get_commands_test(t)
    \/ get_commands_read(t)
    \/ get_commands_reset(t)
    \/ get_commands_return(t)

\* ------------------------------------------------- post_result (95 - 128)
\* A dict assignment d[k] = v, a deletion del d[k], and their effect on the
\* dict's insertion order.
Put(dict, k, v) == (k :> v) @@ dict
Del(dict, k) == [x \in DOMAIN dict \ {k} |-> dict[x]]
OrderPut(order, k) == IF k \in Range(order) THEN order ELSE Append(order, k)
OrderDel(order, k) == SelectSeq(order, LAMBDA x : x # k)

\* Line 106: os.path.join(upload_dir, f"{command_id}_{file.filename}")
file_path(command_id, filename) ==
    <<"uploads", "/">> \o command_id \o <<"_">> \o filename

\* A submit while a sweep runs is concurrent with that sweep.
Disturbed == IF sweep.kind = "running" THEN [sweep EXCEPT !.disturbed = TRUE] ELSE sweep

\* Lines 100-102: the request's form decides the branch.
post_result_begin(t, command_id, request) ==
    /\ pc[t] = "idle"
    /\ nsubmits < bound.submits
    /\ nsubmits' = nsubmits + 1
    /\ frame' = [frame EXCEPT ![t] =
            [op |-> "post_result", command_id |-> command_id, request |-> request]]
    /\ pc' = [pc EXCEPT ![t] =
            IF request.kind = "file" /\ request.filename # <<>> THEN "pr107" ELSE "pr119"]
    /\ resp' = [resp EXCEPT ![t] = NoResp]
    /\ lastSubmit' = NoSubmit
    /\ fetched' = <<>>
    /\ sweep' = Disturbed
    /\ UNCHANGED <<now, bound, queueVars, results_store, results_order, files,
                   cleanup, nsweeps, evicted, released>>

\* Lines 104-107: file.save(file_path)
post_result_save(t) ==
    /\ pc[t] = "pr107"
    /\ files' = Put(files,
                    file_path(frame[t].command_id, frame[t].request.filename),
                    frame[t].request.bytes)
    /\ pc' = [pc EXCEPT ![t] = "pr109"]
    /\ sweep' = Disturbed
    /\ UNCHANGED <<now, frame, resp, bound, queueVars, results_store, results_order,
                   cleanup, nsubmits, nsweeps, lastSubmit, fetched, evicted, released>>

\* Lines 109-116: the file entry is stored.
post_result_file(t) ==
    /\ pc[t] = "pr109"
    /\ LET c == frame[t].command_id
           r == frame[t].request
       IN /\ results_store' = Put(results_store, c,
                 [type |-> "file", file_path |-> file_path(c, r.filename),
                  filename |-> r.filename, timestamp |-> now])
          /\ results_order' = OrderPut(results_order, c)
          /\ lastSubmit' = [kind |-> "file", command_id |-> c,
                            filename |-> r.filename, bytes |-> r.bytes]
          /\ resp' = [resp EXCEPT ![t] =
                 [kind |-> "stored", status |-> 200, command_id |-> c]]
    /\ pc' = [pc EXCEPT ![t] = "idle"]
    /\ frame' = [frame EXCEPT ![t] = NoFrame]
    /\ sweep' = Disturbed
    /\ UNCHANGED <<now, bound, queueVars, files, cleanup, nsubmits, nsweeps,
                   fetched, evicted, released>>

\* Line 120: `if data:` is Python truthiness, false for an empty object, an
\* empty list, zero, false, the empty string and null.
truthy_json(data) == data \notin {"{}", "[]", "0", "false", "", "null"}

\* Lines 119 and 128: the status of a refusal. request.json of a body that is
\* not JSON (a multipart upload) is None in older Flask versions, which line
\* 128 answers with 400, and raises 415 Unsupported Media Type in newer ones.
refusal_status(r) == IF r.kind = "file" THEN {400, 415} ELSE {400}

\* A faulty variant of post_result_json: an entry that exists is kept (first write wins).
post_result_json_first(t) ==
    /\ pc[t] = "pr119"
    /\ LET c == frame[t].command_id
           r == frame[t].request
       IN IF r.kind = "json" /\ truthy_json(r.data)
          THEN /\ results_store' =
                      IF c \in DOMAIN results_store THEN results_store
                      ELSE Put(results_store, c,
                               [type |-> "data", data |-> r.data, timestamp |-> now])
               /\ results_order' = OrderPut(results_order, c)
               /\ lastSubmit' = [kind |-> "data", command_id |-> c, data |-> r.data]
               /\ resp' = [resp EXCEPT ![t] =
                      [kind |-> "stored", status |-> 200, command_id |-> c]]
          ELSE /\ \E st \in refusal_status(r) :
                     resp' = [resp EXCEPT ![t] =
                         [kind |-> "error", status |-> st, op |-> "post_result"]]
               /\ UNCHANGED <<results_store, results_order, lastSubmit>>
    /\ pc' = [pc EXCEPT ![t] = "idle"]
    /\ frame' = [frame EXCEPT ![t] = NoFrame]
    /\ sweep' = Disturbed
    /\ UNCHANGED <<now, bound, queueVars, files, cleanup, nsubmits, nsweeps,
                   fetched, evicted, released>>

\* A faulty variant of post_result_json: a result is refused while a command
\* still waits in a queue to be polled.
post_result_json_polled(t) ==
    /\ pc[t] = "pr119"
    /\ LET c == frame[t].command_id
           r == frame[t].request
       IN IF /\ r.kind = "json" /\ truthy_json(r.data)
             /\ \A d \in DOMAIN command_queue : ~Truthy(QueueOf(d))
          THEN /\ results_store' = Put(results_store, c,
                      [type |-> "data", data |-> r.data, timestamp |-> now])
               /\ results_order' = OrderPut(results_order, c)
               /\ lastSubmit' = [kind |-> "data", command_id |-> c, data |-> r.data]
               /\ resp' = [resp EXCEPT ![t] =
                      [kind |-> "stored", status |-> 200, command_id |-> c]]
          ELSE /\ \E st \in refusal_status(r) :
                     resp' = [resp EXCEPT ![t] =
                         [kind |-> "error", status |-> st, op |-> "post_result"]]
               /\ UNCHANGED <<results_store, results_order, lastSubmit>>
    /\ pc' = [pc EXCEPT ![t] = "idle"]
    /\ frame' = [frame EXCEPT ![t] = NoFrame]
    /\ sweep' = Disturbed
    /\ UNCHANGED <<now, bound, queueVars, files, cleanup, nsubmits, nsweeps,
                   fetched, evicted, released>>

\* Lines 119-128: the structured payload is stored, or the request refused.
post_result_json(t) ==
    /\ pc[t] = "pr119"
    /\ LET c == frame[t].command_id
           r == frame[t].request
       IN IF r.kind = "json" /\ truthy_json(r.data)
          THEN /\ results_store' = Put(results_store, c,
                      [type |-> "data", data |-> r.data, timestamp |-> now])
               /\ results_order' = OrderPut(results_order, c)
               /\ lastSubmit' = [kind |-> "data", command_id |-> c, data |-> r.data]
               /\ resp' = [resp EXCEPT ![t] =
                      [kind |-> "stored", status |-> 200, command_id |-> c]]
          ELSE /\ \E st \in refusal_status(r) :
                     resp' = [resp EXCEPT ![t] =
                         [kind |-> "error", status |-> st, op |-> "post_result"]]
               /\ UNCHANGED <<results_store, results_order, lastSubmit>>
    /\ pc' = [pc EXCEPT ![t] = "idle"]
    /\ frame' = [frame EXCEPT ![t] = NoFrame]
    /\ sweep' = Disturbed
    /\ UNCHANGED <<now, bound, queueVars, files, cleanup, nsubmits, nsweeps,
                   fetched, evicted, released>>

post_result(t) ==
    \/ \E c \in CommandIds, r \in bound.requests : post_result_begin(t, c, r)
    \/ post_result_save(t)
    \/ post_result_file(t)
    \/ post_result_json(t)

\* ------------------------------------------------- get_result (130 - 144)
NotFound == [status |-> 404]
ServerError == [status |-> 500]

\* Lines 139-144: what is sent for an entry (send_file fails on a missing file).
send_result(result) ==
    IF result.type = "file"
    THEN IF result.file_path \in DOMAIN files
         THEN [status |-> 200, filename |-> result.filename,
               bytes |-> files[result.file_path]]
         ELSE ServerError
    ELSE [status |-> 200, data |-> result.data]

\* The response of a fetch, and its record in the history.
Fetched(t, c, value) ==
    /\ resp' = [resp EXCEPT ![t] =
            [kind |-> "result", command_id |-> c, value |-> value,
             prior |-> IF c \in DOMAIN fetched THEN <<fetched[c]>> ELSE <<>>]]
    /\ fetched' = Put(fetched, c, value)
    /\ pc' = [pc EXCEPT ![t] = "idle"]
    /\ frame' = [frame EXCEPT ![t] = NoFrame]

\* Lines 134-135: an unknown id is answered 404.
get_result_test(t, command_id) ==
    /\ pc[t] = "idle"
    /\ IF command_id \notin DOMAIN results_store
       THEN Fetched(t, command_id, NotFound)
       ELSE /\ frame' = [frame EXCEPT ![t] =
                   [op |-> "get_result", command_id |-> command_id]]
            /\ pc' = [pc EXCEPT ![t] = "gr137"]
            /\ resp' = [resp EXCEPT ![t] = NoResp]
            /\ UNCHANGED fetched
    /\ UNCHANGED <<now, bound, queueVars, results_store, results_order, files,
                   cleanup, nsubmits, nsweeps, lastSubmit, sweep, evicted, released>>

\* Line 137: result = results_store[command_id]  (KeyError if deleted meanwhile)
get_result_read(t) ==
    /\ pc[t] = "gr137"
    /\ IF frame[t].command_id \in DOMAIN results_store
       THEN /\ frame' = [frame EXCEPT ![t] =
                   [op |-> "get_result", command_id |-> frame[t].command_id,
                    result |-> results_store[frame[t].command_id]]]
            /\ pc' = [pc EXCEPT ![t] = "gr139"]
            /\ UNCHANGED <<resp, fetched>>
       ELSE Fetched(t, frame[t].command_id, ServerError)
    /\ UNCHANGED <<now, bound, queueVars, results_store, results_order, files,
                   cleanup, nsubmits, nsweeps, lastSubmit, sweep, evicted, released>>

\* A faulty variant of get_result_send: the entry is deleted once it is fetched.
get_result_send_pop(t) ==
    /\ pc[t] = "gr139"
    /\ Fetched(t, frame[t].command_id, send_result(frame[t].result))
    /\ results_store' = Del(results_store, frame[t].command_id)
    /\ results_order' = OrderDel(results_order, frame[t].command_id)
    /\ UNCHANGED <<now, bound, queueVars, files,
                   cleanup, nsubmits, nsweeps, lastSubmit, sweep, evicted, released>>

\* Lines 139-144: the file or the payload is sent.
get_result_send(t) ==
    /\ pc[t] = "gr139"
    /\ Fetched(t, frame[t].command_id, send_result(frame[t].result))
    /\ UNCHANGED <<now, bound, queueVars, results_store, results_order, files,
                   cleanup, nsubmits, nsweeps, lastSubmit, sweep, evicted, released>>

get_result(t) ==
    \/ \E c \in CommandIds : get_result_test(t, c)
    \/ get_result_read(t)
    \/ get_result_send(t)

\* ---------------------------------------------- cleanup_old_data (19 - 37)
\* The cleanup thread after an uncaught exception: the thread has ended.
Dead == [pc |-> "dead"]

\* A faulty variant of is_expired: the bound of line 27 made inclusive.
is_expired_inclusive(clock, v) == clock - v.timestamp >= RESULT_EXPIRY

\* Line 27: now - v['timestamp'] > RESULT_EXPIRY
is_expired(clock, v) == clock - v.timestamp > RESULT_EXPIRY

\* Lines 22-23: the sleep ends and the clock is read.
cleanup_wake ==
    /\ cleanup.pc = "sleep"
    /\ nsweeps < bound.sweeps
    /\ nsweeps' = nsweeps + 1
    /\ cleanup' = [pc |-> "cl26", now |-> now, size |-> 0, it |-> 0,
                   expired |-> <<>>, i |-> 1, release |-> "none"]
    /\ sweep' = [kind |-> "running", clock |-> now, before |-> results_store,
                 disturbed |-> FALSE]
    /\ UNCHANGED <<now, pc, frame, resp, bound, queueVars, results_store,
                   results_order, files, nsubmits, lastSubmit, fetched,
                   evicted, released>>

\* Lines 26-27: one step of the comprehension over results_store.items(): the
\* iterator is created, or raises RuntimeError because the dict changed size,
\* or is exhausted, or yields the next item, which the test of line 27 keeps
\* or drops.
cleanup_scan ==
    /\ cleanup.pc = "cl26"
    /\ IF cleanup.it = 0
       THEN /\ cleanup' = [cleanup EXCEPT !.size = Len(results_order), !.it = 1]
            /\ UNCHANGED sweep
       ELSE IF Len(results_order) # cleanup.size
       THEN /\ cleanup' = Dead
            /\ sweep' = [sweep EXCEPT !.kind = "aborted"]
       ELSE IF cleanup.it > Len(results_order)
       THEN /\ cleanup' = [cleanup EXCEPT !.pc = "cl28"]
            /\ UNCHANGED sweep
       ELSE LET k == results_order[cleanup.it]
            IN /\ cleanup' = [cleanup EXCEPT
                     !.it = @ + 1,
                     !.expired = IF is_expired(cleanup.now, results_store[k])
                                 THEN Append(@, k) ELSE @]
               /\ UNCHANGED sweep
    /\ UNCHANGED <<now, pc, frame, resp, bound, queueVars, results_store,
                   results_order, files, nsubmits, nsweeps, lastSubmit, fetched,
                   evicted, released>>

\* Lines 28-29 and 36-37: the next expired key, if any, and whether its entry
\* has a file; after the last one the thread sleeps again.
cleanup_next ==
    /\ cleanup.pc = "cl28"
    /\ IF cleanup.i > Len(cleanup.expired)
       THEN /\ cleanup' = Sleeping
            /\ sweep' = [kind |-> "done", clock |-> sweep.clock,
                         before |-> sweep.before, after |-> results_store,
                         disturbed |-> sweep.disturbed,
                         count |-> Len(cleanup.expired)]
       ELSE LET k == cleanup.expired[cleanup.i]
            IN IF k \notin DOMAIN results_store
               THEN /\ cleanup' = Dead
                    /\ sweep' = [sweep EXCEPT !.kind = "aborted"]
               ELSE /\ cleanup' = [cleanup EXCEPT
                          !.pc = IF "file_path" \in DOMAIN results_store[k]
                                 THEN "cl31" ELSE "cl34",
                          !.release = "none"]
                    /\ UNCHANGED sweep
    /\ UNCHANGED <<now, pc, frame, resp, bound, queueVars, results_store,
                   results_order, files, nsubmits, nsweeps, lastSubmit, fetched,
                   evicted, released>>

\* A faulty variant of cleanup_remove: the error of a failed os.remove is not
\* caught and ends the thread.
cleanup_remove_raise ==
    /\ cleanup.pc = "cl31"
    /\ LET k == cleanup.expired[cleanup.i]
           present == /\ k \in DOMAIN results_store
                      /\ "file_path" \in DOMAIN results_store[k]
                      /\ results_store[k].file_path \in DOMAIN files
       IN \E outcome \in (IF present THEN {"removed"} \cup bound.faults
                                     ELSE {"failed"}) :
             IF outcome = "removed"
             THEN /\ files' = Del(files, results_store[k].file_path)
                  /\ released' = [kind |-> "file", key |-> k, clock |-> now,
                                  entry |-> results_store[k]]
                  /\ lastSubmit' = NoSubmit
                  /\ fetched' = <<>>
                  /\ cleanup' = [cleanup EXCEPT !.pc = "cl34", !.release = outcome]
                  /\ UNCHANGED sweep
             ELSE /\ cleanup' = Dead
                  /\ sweep' = [sweep EXCEPT !.kind = "aborted"]
                  /\ UNCHANGED <<files, released, lastSubmit, fetched>>
    /\ UNCHANGED <<now, pc, frame, resp, bound, queueVars, results_store,
                   results_order, nsubmits, nsweeps, evicted>>

\* Lines 30-33: os.remove(results_store[k]['file_path']); the KeyError of an
\* entry without a file, the error of a missing file and any error the file
\* system raises for a file that exists are swallowed. cleanup.release keeps
\* the outcome of the attempt until the next key is taken.
cleanup_remove ==
    /\ cleanup.pc = "cl31"
    /\ LET k == cleanup.expired[cleanup.i]
           present == /\ k \in DOMAIN results_store
                      /\ "file_path" \in DOMAIN results_store[k]
                      /\ results_store[k].file_path \in DOMAIN files
       IN \E outcome \in (IF present THEN {"removed"} \cup bound.faults
                                     ELSE {"failed"}) :
             /\ IF outcome = "removed"
                THEN /\ files' = Del(files, results_store[k].file_path)
                     /\ released' = [kind |-> "file", key |-> k, clock |-> now,
                                     entry |-> results_store[k]]
                     /\ lastSubmit' = NoSubmit
                     /\ fetched' = <<>>
                ELSE UNCHANGED <<files, released, lastSubmit, fetched>>
             /\ cleanup' = [cleanup EXCEPT !.pc = "cl34", !.release = outcome]
    /\ UNCHANGED <<now, pc, frame, resp, bound, queueVars, results_store,
                   results_order, nsubmits, nsweeps, sweep, evicted>>

\* Line 34: del results_store[k]
cleanup_delete ==
    /\ cleanup.pc = "cl34"
    /\ LET k == cleanup.expired[cleanup.i]
       IN IF k \in DOMAIN results_store
          THEN /\ results_store' = Del(results_store, k)
               /\ results_order' = OrderDel(results_order, k)
               /\ evicted' = [kind |-> "entry", key |-> k, clock |-> now,
                              entry |-> results_store[k]]
               /\ cleanup' = [cleanup EXCEPT !.pc = "cl28", !.i = @ + 1]
               /\ UNCHANGED sweep
          ELSE /\ cleanup' = Dead
               /\ sweep' = [sweep EXCEPT !.kind = "aborted"]
               /\ UNCHANGED <<results_store, results_order, evicted>>
    /\ lastSubmit' = NoSubmit
    /\ fetched' = <<>>
    /\ UNCHANGED <<now, pc, frame, resp, bound, queueVars, files,
                   nsubmits, nsweeps, released>>

cleanup_old_data ==
    \/ cleanup_wake
    \/ cleanup_scan
    \/ cleanup_next
    \/ cleanup_remove
    \/ cleanup_delete

\* ---------------------------------------------------------- home (43 - 50)
\* Lines 48-49: the devices whose age is below DEVICE_TIMEOUT, counted.
active_devices(clock) ==
    Cardinality({d \in DOMAIN device_last_seen :
                    clock - device_last_seen[d] < DEVICE_TIMEOUT})

home(t) ==
    /\ pc[t] = "idle"
    /\ resp' = [resp EXCEPT ![t] =
            [kind |-> "home", status |-> 200, clock |-> now,
             active_devices |-> active_devices(now)]]
    /\ UNCHANGED <<now, command_queue, lists, device_last_seen, pc, frame,
                   next_uuid, appended, acked, delivered, lastOp, npolls, bound, resultVars>>

\* ------------------------------------------------ list_devices (146 - 158)
\* A faulty variant of device_status: the bound of line 154 made inclusive.
device_status_inclusive(clock, timestamp) ==
    IF clock - timestamp <= DEVICE_TIMEOUT THEN "online" ELSE "offline"

\* Line 154: 'online' if now - timestamp < DEVICE_TIMEOUT else 'offline'
device_status(clock, timestamp) ==
    IF clock - timestamp < DEVICE_TIMEOUT THEN "online" ELSE "offline"

\* Line 149: now = datetime.now()
list_devices_clock(t) ==
    /\ pc[t] = "idle"
    /\ frame' = [frame EXCEPT ![t] = [op |-> "list_devices", clock |-> now]]
    /\ pc' = [pc EXCEPT ![t] = "ld150"]
    /\ resp' = [resp EXCEPT ![t] = NoResp]
    /\ UNCHANGED <<now, command_queue, lists, device_last_seen,
                   next_uuid, appended, acked, delivered, lastOp, npolls, bound, resultVars>>

\* Lines 150-158: one entry per tracked device (a tick is 600 seconds).
list_devices_build(t) ==
    /\ pc[t] = "ld150"
    /\ resp' = [resp EXCEPT ![t] =
            [kind |-> "devices", status |-> 200, clock |-> frame[t].clock,
             devices |-> [d \in DOMAIN device_last_seen |->
                 [last_seen |-> device_last_seen[d],
                  seconds_ago |-> (frame[t].clock - device_last_seen[d]) * 600,
                  status |-> device_status(frame[t].clock, device_last_seen[d])]]]]
    /\ pc' = [pc EXCEPT ![t] = "idle"]
    /\ frame' = [frame EXCEPT ![t] = NoFrame]
    /\ UNCHANGED <<now, command_queue, lists, device_last_seen,
                   next_uuid, appended, acked, delivered, lastOp, npolls, bound, resultVars>>

list_devices(t) ==
    \/ list_devices_clock(t)
    \/ list_devices_build(t)

\* ---------------------------------------------------------- specifications
\* One worker thread: requests are served one after the other.
NextSeq ==
    \/ Tick
    \/ \E t \in SeqThreads : post_command(t)
    \/ \E t \in SeqThreads : get_commands(t)

SpecSeq ==
    Init([time |-> MaxPollTime, step |-> 1, submits |-> 0, sweeps |-> 0,
          faults |-> {}, requests |-> {},
           cmds |-> MaxCmds, polls |-> MaxPolls]) /\ [][NextSeq]_vars

\* One worker thread serving enqueues, polls and the two status views.
NextLive ==
    \/ Tick
    \/ \E t \in SeqThreads : post_command(t)
    \/ \E t \in SeqThreads : get_commands(t)
    \/ \E t \in SeqThreads : home(t)
    \/ \E t \in SeqThreads : list_devices(t)

SpecLive ==
    Init([time |-> MaxPollTime, step |-> 1, submits |-> 0, sweeps |-> 0,
          faults |-> {}, requests |-> {},
           cmds |-> MaxLiveCmds, polls |-> MaxPolls]) /\ [][NextLive]_vars

\* One worker thread serving submits and fetches, started in the state that
\* an enqueue for dev1 and a poll by dev2 leave behind.
InitStore(b) ==
    /\ bound = b
    /\ now = 0
    /\ command_queue = ("dev1" :> 1)
    /\ lists = << <<[id |-> 1, action |-> "ping", params |-> NoParams]>> >>
    /\ device_last_seen = ("dev2" :> 0)
    /\ pc = [t \in Threads |-> "idle"]
    /\ frame = [t \in Threads |-> NoFrame]
    /\ resp = [t \in Threads |-> NoResp]
    /\ next_uuid = 1
    /\ appended = << <<1, "dev1">> >>
    /\ acked = {1}
    /\ delivered = <<0>>
    /\ lastOp = [d \in Devices |-> IF d = "dev1" THEN "enqueue" ELSE "poll"]
    /\ npolls = 1
    /\ results_store = <<>>
    /\ results_order = <<>>
    /\ files = <<>>
    /\ cleanup = Sleeping
    /\ nsubmits = 0
    /\ nsweeps = 0
    /\ lastSubmit = NoSubmit
    /\ fetched = <<>>
    /\ sweep = NoSweep
    /\ evicted = NoEvent
    /\ released = NoEvent

NextStore ==
    \/ Tick
    \/ \E t \in SeqThreads : post_result(t)
    \/ \E t \in SeqThreads : get_result(t)

SpecStore ==
    InitStore([time |-> RESULT_EXPIRY \div 2, step |-> RESULT_EXPIRY \div 2,
               submits |-> MaxSubmits, sweeps |-> 0, cmds |-> 0, polls |-> 0,
               faults |-> {}, requests |-> SubmitRequests])
        /\ [][NextStore]_vars

\* One worker thread serving submits while the cleanup thread sweeps.
NextSweep ==
    \/ Tick
    \/ \E t \in SeqThreads : post_result(t)
    \/ cleanup_old_data

SpecSweep ==
    Init([time |-> MaxResultTicks * (RESULT_EXPIRY \div 2),
          step |-> RESULT_EXPIRY \div 2,
          submits |-> MaxSubmits, sweeps |-> MaxSweeps, cmds |-> 0, polls |-> 0,
          faults |-> {}, requests |-> SweepRequests])
        /\ [][NextSweep]_vars

\* One worker thread serving enqueue requests of any body, and polls.
NextEnqueue ==
    \/ Tick
    \/ \E t \in SeqThreads : post_command_any(t)
    \/ \E t \in SeqThreads : get_commands(t)

SpecEnqueue ==
    Init([time |-> MaxPollTime, step |-> 1, submits |-> 0, sweeps |-> 0,
          faults |-> {}, requests |-> {},
          cmds |-> MaxRaceCmds, polls |-> MaxRacePolls]) /\ [][NextEnqueue]_vars

\* One worker thread serving submits of every form, and fetches.
NextSubmit ==
    \/ Tick
    \/ \E t \in SeqThreads : post_result(t)
    \/ \E t \in SeqThreads : get_result(t)

SpecSubmit ==
    Init([time |-> RESULT_EXPIRY \div 2, step |-> RESULT_EXPIRY \div 2,
          submits |-> MaxSubmits, sweeps |-> 0, cmds |-> 0, polls |-> 0,
          faults |-> {}, requests |-> AnySubmitRequests]) /\ [][NextSubmit]_vars

\* One worker thread serving submits and fetches while the cleanup thread
\* sweeps.
NextFetch ==
    \/ Tick
    \/ \E t \in SeqThreads : post_result(t)
    \/ \E t \in SeqThreads : get_result(t)
    \/ cleanup_old_data

SpecFetch ==
    Init([time |-> MaxResultTicks * (RESULT_EXPIRY \div 2),
          step |-> RESULT_EXPIRY \div 2,
          submits |-> MaxFetchSubmits, sweeps |-> MaxSweeps, cmds |-> 0,
          polls |-> 0, faults |-> {}, requests |-> FetchRequests]) /\ [][NextFetch]_vars

\* One worker thread serving blob submits while the cleanup thread sweeps a
\* directory whose files may refuse to be removed.
NextRelease ==
    \/ Tick
    \/ \E t \in SeqThreads : post_result(t)
    \/ cleanup_old_data

SpecRelease ==
    Init([time |-> MaxResultTicks * (RESULT_EXPIRY \div 2),
          step |-> RESULT_EXPIRY \div 2,
          submits |-> MaxSubmits, sweeps |-> MaxSweeps, cmds |-> 0, polls |-> 0,
          faults |-> {"failed"}, requests |-> ReleaseRequests])
        /\ [][NextRelease]_vars

\* One worker thread serving every route while the cleanup thread sweeps. The
\* enqueues, polls, submits and sweeps started are bounded together, and the
\* clock advances once, beyond RESULT_EXPIRY.
Started == next_uuid + npolls + nsubmits + nsweeps

NextAll ==
    \/ Tick
    \/ \E t \in SeqThreads :
          post_command(t) /\ (pc[t] = "idle" => Started < MaxAllOps)
    \/ \E t \in SeqThreads :
          get_commands(t) /\ (pc[t] = "idle" => Started < MaxAllOps)
    \/ \E t \in SeqThreads :
          post_result(t) /\ (pc[t] = "idle" => Started < MaxAllOps)
    \/ \E t \in SeqThreads : get_result(t)
    \/ \E t \in SeqThreads : home(t)
    \/ \E t \in SeqThreads : list_devices(t)
    \/ cleanup_old_data /\ (cleanup.pc = "sleep" => Started < MaxAllOps)

SpecAll ==
    Init([time |-> RESULT_EXPIRY + 1, step |-> RESULT_EXPIRY + 1,
          submits |-> MaxAllOps, sweeps |-> MaxAllOps,
          cmds |-> MaxAllOps, polls |-> MaxAllOps,
          faults |-> {}, requests |-> AllRequests]) /\ [][NextAll]_vars

\* Two worker threads whose statements interleave, the enqueues and polls
\* started bounded together, the clock advancing once.
NextIsolate ==
    \/ Tick
    \/ \E t \in Threads :
          post_command(t) /\ (pc[t] = "idle" => Started < MaxIsoOps)
    \/ \E t \in Threads :
          get_commands(t) /\ (pc[t] = "idle" => Started < MaxIsoOps)

SpecIsolate ==
    Init([time |-> 1, step |-> 1, submits |-> 0, sweeps |-> 0,
          cmds |-> MaxIsoOps, polls |-> MaxIsoOps,
          faults |-> {}, requests |-> {}]) /\ [][NextIsolate]_vars

\* Two worker threads whose statements interleave.
NextQueue ==
    \/ Tick
    \/ \E t \in Threads : post_command(t)
    \/ \E t \in Threads : get_commands(t)

SpecQueue ==
    Init([time |-> MaxPollTime, step |-> 1, submits |-> 0, sweeps |-> 0,
          faults |-> {}, requests |-> {},
           cmds |-> MaxRaceCmds, polls |-> MaxRacePolls]) /\ [][NextQueue]_vars

\* ------------------------------------------------------------------ claims
AllIdle == \A t \in Threads : pc[t] = "idle"

\* How many times command id i occurs in the queue of device d.
Occurrences(i, d) == Cardinality({k \in 1..Len(QueueOf(d)) : QueueOf(d)[k].id = i})

\* The place of command id i in the order of the appends.
PlaceOf(i) == CHOOSE k \in 1..Len(appended) : appended[k][1] = i

\* out lists commands of device d only, each once, in the order of their appends.
InEnqueueOrder(out, d) ==
    /\ \A k \in 1..Len(out) :
          \E j \in 1..Len(appended) : appended[j] = <<out[k].id, d>>
    /\ \A k, m \in 1..Len(out) :
          k < m => PlaceOf(out[k].id) < PlaceOf(out[m].id)

\* C1: with requests served one after the other, every enqueued command is
\* in exactly one poll output or else still in the queue of its own device
\* (never both, never twice); a poll leaves the queue of its device empty;
\* each poll output is in enqueue order; and a poll that follows a poll of the
\* same device with no enqueue in between returns the empty list.
C1_ExactlyOnceFifo ==
    /\ AllIdle =>
          \A j \in 1..Len(appended) :
             LET i == appended[j][1]
                 d == appended[j][2]
             IN /\ delivered[i] + Occurrences(i, d) = 1
                /\ \A e \in Devices \ {d} : Occurrences(i, e) = 0
    /\ \A d \in Devices : (AllIdle /\ lastOp[d] = "poll") => QueueOf(d) = <<>>
    /\ \A t \in Threads :
          resp[t].kind = "commands" =>
             /\ InEnqueueOrder(resp[t].commands, resp[t].device_id)
             /\ resp[t].prev = "poll" => resp[t].commands = <<>>

\* C1 witness: a poll has returned two commands while a third, enqueued
\* for the other device, is still queued.
C1_Witness ==
    /\ AllIdle
    /\ resp[1].kind = "commands"
    /\ Len(resp[1].commands) = 2
    /\ \E j \in 1..Len(appended) : delivered[appended[j][1]] = 0

\* C2: no command is in the output of two polls.
C2_NoDoubleHandoff == \A i \in DOMAIN delivered : delivered[i] <= 1

\* C3: once no request is in flight, every acknowledged command is in the
\* queue of its device or has been returned by a poll.
C3_NoAckedLost ==
    AllIdle =>
       \A j \in 1..Len(appended) :
          appended[j][1] \in acked =>
             \/ delivered[appended[j][1]] >= 1
             \/ Occurrences(appended[j][1], appended[j][2]) >= 1

\* What a fetch must send for the submit the history holds.
SubmittedValue(sub) ==
    IF sub.kind = "file"
    THEN [status |-> 200, filename |-> sub.filename, bytes |-> sub.bytes]
    ELSE [status |-> 200, data |-> sub.data]

\* C4: after a successful submit for a command id, whatever was submitted
\* for that id before (structured or blob), the store holds one entry for the
\* id and a fetch of it sends exactly what the last submit carried.
C4_LastWriteWins ==
    lastSubmit.kind # "none" =>
       /\ lastSubmit.command_id \in DOMAIN results_store
       /\ send_result(results_store[lastSubmit.command_id]) = SubmittedValue(lastSubmit)
       /\ \A t \in Threads :
             (resp[t].kind = "result" /\ resp[t].command_id = lastSubmit.command_id)
                => resp[t].value = SubmittedValue(lastSubmit)

\* C4 witness: the second submit for an id, a structured payload over an
\* earlier blob, has been fetched.
C4_Witness ==
    /\ nsubmits = 2
    /\ lastSubmit.kind = "data"
    /\ resp[1].kind = "result"
    /\ resp[1].command_id = lastSubmit.command_id
    /\ resp[1].value.status = 200
    /\ \E f \in Filenames : file_path(lastSubmit.command_id, f) \in DOMAIN files

\* C5: once a submit has returned, every file of the upload directory is the
\* file of a blob entry of the store (an overwritten blob's file is gone).
C5_NoOrphanBlob ==
    AllIdle =>
       \A p \in DOMAIN files :
          \E c \in DOMAIN results_store :
             results_store[c].type = "file" /\ results_store[c].file_path = p

\* A fetch that follows a fetch of the same id, with no submit or eviction in
\* between, has sent the same value.
RepeatSame ==
    \A t \in Threads :
       (resp[t].kind = "result" /\ resp[t].prior # <<>>)
          => resp[t].value = resp[t].prior[1]

\* C6: no step of a fetch, found or not found, changes the result store, the
\* upload directory, the command queues or the liveness records; and a repeated
\* fetch sends the same value.
C6_FetchReadOnly ==
    [][ /\ (\E t \in Threads : get_result(t)) => UNCHANGED storeVars
        /\ RepeatSame' ]_vars

\* C6 witness: an id was fetched twice in a row, successfully, and its entry
\* and the queued command are still there.
C6_Witness ==
    /\ resp[1].kind = "result"
    /\ resp[1].prior # <<>>
    /\ resp[1].value.status = 200
    /\ resp[1].command_id \in DOMAIN results_store
    /\ QueueOf("dev1") # <<>>

\* C7: a sweep that ran with no concurrent submit has removed exactly the
\* entries whose age at the sweep's clock was above RESULT_EXPIRY; every entry
\* of age RESULT_EXPIRY or less is still in the store, unchanged.
C7_SweepRemovesExactlyExpired ==
    (sweep.kind = "done" /\ ~sweep.disturbed) =>
       /\ DOMAIN sweep.after \subseteq DOMAIN sweep.before
       /\ sweep.count = Cardinality(DOMAIN sweep.before \ DOMAIN sweep.after)
       /\ \A k \in DOMAIN sweep.before :
             IF sweep.clock - sweep.before[k].timestamp > RESULT_EXPIRY
             THEN k \notin DOMAIN sweep.after
             ELSE k \in DOMAIN sweep.after /\ sweep.after[k] = sweep.before[k]

\* C7 witness: an undisturbed sweep removed an entry older than RESULT_EXPIRY
\* and kept one of age exactly RESULT_EXPIRY.
C7_Witness ==
    /\ sweep.kind = "done"
    /\ ~sweep.disturbed
    /\ \E k \in DOMAIN sweep.before :
          /\ sweep.clock - sweep.before[k].timestamp > RESULT_EXPIRY
          /\ k \notin DOMAIN sweep.after
    /\ \E k \in DOMAIN sweep.before :
          /\ sweep.clock - sweep.before[k].timestamp = RESULT_EXPIRY
          /\ k \in DOMAIN sweep.after

\* C8: the entry the sweeper deletes, and the entry whose file it removes, is
\* older than RESULT_EXPIRY at the moment of the deletion or removal.
C8_NeverEvictsLive ==
    /\ evicted.kind = "entry" =>
          evicted.clock - evicted.entry.timestamp > RESULT_EXPIRY
    /\ released.kind = "file" =>
          released.clock - released.entry.timestamp > RESULT_EXPIRY

\* C9: the listing marks a device online iff its age, the listing's clock
\* minus its last-seen timestamp, is strictly below DEVICE_TIMEOUT (an age of
\* exactly DEVICE_TIMEOUT is offline); and the summary's count at a time equals
\* the number of devices the listing marks online at that time.
C9_StrictTimeout ==
    /\ \A t \in Threads :
          resp[t].kind = "devices" =>
             \A d \in DOMAIN resp[t].devices :
                LET age == resp[t].clock - resp[t].devices[d].last_seen
                IN /\ resp[t].devices[d].status = "online" <=> age < DEVICE_TIMEOUT
                   /\ age = DEVICE_TIMEOUT => resp[t].devices[d].status = "offline"
    /\ active_devices(now) =
          Cardinality({d \in DOMAIN device_last_seen :
                          device_status(now, device_last_seen[d]) = "online"})

\* C9 witness: a listing shows one device seen exactly DEVICE_TIMEOUT ago,
\* offline, and another device online.
C9_Witness ==
    /\ resp[1].kind = "devices"
    /\ \E d \in DOMAIN resp[1].devices :
          /\ resp[1].clock - resp[1].devices[d].last_seen = DEVICE_TIMEOUT
          /\ resp[1].devices[d].status = "offline"
    /\ \E d \in DOMAIN resp[1].devices : resp[1].devices[d].status = "online"
    /\ active_devices(now) = 1

\* C10: every poll is answered with status 200 and a list, never an error,
\* also for a device with no queue or an empty one, and has set the
\* device's last-seen timestamp to the clock value it read.
C10_PollSucceedsAndTouches ==
    \A t \in Threads :
       /\ ~(resp[t].kind = "error" /\ resp[t].op = "get_commands")
       /\ resp[t].kind = "commands" =>
             /\ resp[t].status = 200
             /\ resp[t].device_id \in DOMAIN device_last_seen
             /\ device_last_seen[resp[t].device_id] = resp[t].seen
             /\ resp[t].seen <= now

\* C10 witness: a poll of a device that was never enqueued to has returned
\* the empty list, after the clock had advanced.
C10_Witness ==
    /\ resp[1].kind = "commands"
    /\ resp[1].commands = <<>>
    /\ resp[1].device_id \notin DOMAIN command_queue
    /\ device_last_seen[resp[1].device_id] > 0

\* The endpoint id or the action of an enqueue request is missing or empty.
MissingOrEmpty(r) ==
    \/ r.json = "none"
    \/ "device_id" \notin DOMAIN r.data
    \/ "action" \notin DOMAIN r.data
    \/ r.data.device_id = ""
    \/ r.data.action = ""

\* C11: an enqueue request whose endpoint id or action is missing or empty
\* is refused with status 400, creating no command and changing no queue; any
\* other request is accepted.
C11_EnqueueValidation ==
    [][\A t \in SeqThreads, r \in CommandRequests :
          post_command_request(t, r) =>
             IF MissingOrEmpty(r)
             THEN /\ resp'[t].kind = "error"
                  /\ resp'[t].status = 400
                  /\ UNCHANGED queueVars
             ELSE pc'[t] = "pc70"]_vars

\* A submit request carries a structured payload, or a named blob with
\* nonzero content.
Acceptable(r) ==
    \/ r.kind = "json"
    \/ r.kind = "file" /\ r.filename # <<>> /\ r.bytes # ""

\* C12: a submit is accepted iff its request carries a structured payload,
\* whatever its value, or a named blob with nonzero content; a refused submit
\* leaves the result store and the upload directory unchanged.
C12_SubmitValidation ==
    [][\A t \in SeqThreads :
          (post_result_json(t) \/ post_result_file(t)) =>
             /\ Acceptable(frame[t].request) <=> resp'[t].kind = "stored"
             /\ resp'[t].kind = "error" =>
                   UNCHANGED <<results_store, results_order, files>>]_vars

\* C13: a fetch of an id that has no entry, or whose entry is
\* older than RESULT_EXPIRY when the fetch begins, is answered NotFound.
C13_NotFoundWhenAbsentOrExpired ==
    [][\A t \in SeqThreads, c \in CommandIds :
          (/\ get_result_test(t, c)
           /\ \/ c \notin DOMAIN results_store
              \/ now - results_store[c].timestamp > RESULT_EXPIRY)
             => (resp'[t].kind = "result" /\ resp'[t].value = NotFound)]_vars

\* C14: a submit for a command id that no enqueue issued, made while the
\* command of another id still waits unpolled, is accepted whenever it carries
\* a payload, its value is what the next fetch of the id sends, and no step of
\* a submit changes a queue or a last-seen timestamp.
C14_SubmitIgnoresQueues ==
    [][\A t \in SeqThreads :
          /\ post_result(t) =>
                UNCHANGED <<command_queue, lists, device_last_seen>>
          /\ (post_result_json(t) \/ post_result_file(t)) =>
                (frame[t].request.kind # "empty" =>
                    /\ resp'[t].kind = "stored"
                    /\ frame[t].command_id \in DOMAIN results_store'
                    /\ lastSubmit'.command_id = frame[t].command_id)
          /\ (get_result_send(t) /\ lastSubmit.kind # "none"
                 /\ lastSubmit.command_id = frame[t].command_id) =>
                resp'[t].value = SubmittedValue(lastSubmit)]_vars

\* C14 witness: the result submitted for an id was fetched while the only
\* command ever enqueued still waits in its queue, never polled.
C14_Witness ==
    /\ resp[1].kind = "result"
    /\ lastSubmit.kind # "none"
    /\ resp[1].command_id = lastSubmit.command_id
    /\ resp[1].value = SubmittedValue(lastSubmit)
    /\ Len(appended) = 1
    /\ Len(QueueOf("dev1")) = 1
    /\ delivered[1] = 0

\* C15: the cleanup thread never terminates, whatever the request handlers
\* submit while it scans the store (the safety half of "the sweeper runs
\* forever and every expired entry is eventually removed").
C15_SweeperNeverTerminates == cleanup.pc # "dead"

\* C16: a failed release of an expired entry's file does not stop the sweep:
\* the attempt is always followed by line 34, which deletes the entry and moves
\* on to the next expired key with the list of expired keys intact; and no
\* expired entry with a file is deleted before its release was attempted.
C16_ReleaseFailureTolerated ==
    [][/\ cleanup_remove => cleanup'.pc = "cl34"
       /\ (cleanup_delete /\ cleanup.release = "failed") =>
             /\ cleanup.expired[cleanup.i] \notin DOMAIN results_store'
             /\ cleanup'.pc = "cl28"
             /\ cleanup'.i = cleanup.i + 1
             /\ cleanup'.expired = cleanup.expired
       /\ cleanup_delete =>
             LET k == cleanup.expired[cleanup.i]
             IN (/\ k \in DOMAIN results_store
                 /\ "file_path" \in DOMAIN results_store[k]
                 /\ is_expired(cleanup.now, results_store[k]))
                   => cleanup.release # "none"
       /\ (cleanup_next /\ cleanup.i > Len(cleanup.expired)) =>
             /\ cleanup' = Sleeping
             /\ sweep.disturbed \/
                   \A k \in Range(cleanup.expired) : k \notin DOMAIN results_store]_vars

\* C16 witness: the release of the first of two expired files failed, its
\* entry is gone though its file is still there, and the sweep went on to
\* release and delete the second.
C16_Witness ==
    /\ cleanup.pc = "cl28"
    /\ Len(cleanup.expired) = 2
    /\ cleanup.i > 2
    /\ cleanup.release = "removed"
    /\ results_store = <<>>
    /\ Cardinality(DOMAIN files) = 1

\* C17: no step replaces a device's last-seen timestamp by an earlier one,
\* also when two polls of the device overlap.
C17_LastSeenMonotonic ==
    [][\A d \in DOMAIN device_last_seen :
          device_last_seen'[d] >= device_last_seen[d]]_vars

\* C18: the liveness records are exactly those of the polled devices: no step
\* removes a record, a record appears only in the step in which a poll of
\* that device runs line 84, and every such step leaves the device's record.
C18_TrackedIffPolled ==
    [][/\ DOMAIN device_last_seen \subseteq DOMAIN device_last_seen'
       /\ \A d \in DOMAIN device_last_seen' \ DOMAIN device_last_seen :
             \E t \in SeqThreads :
                get_commands_touch(t) /\ frame[t].device_id = d
       /\ \A t \in SeqThreads :
             get_commands_touch(t) =>
                frame[t].device_id \in DOMAIN device_last_seen']_vars

\* C18 witness: after an enqueue for dev2, a poll by dev1 and a listing, dev1
\* alone has a record.
C18_Witness ==
    /\ DOMAIN device_last_seen = {"dev1"}
    /\ "dev2" \in DOMAIN command_queue
    /\ resp[1].kind = "devices"
    /\ DOMAIN resp[1].devices = {"dev1"}

\* The queue and the liveness record of device d are the same before and
\* after the step.
Untouched(d) ==
    /\ (d \in DOMAIN command_queue) <=> (d \in DOMAIN command_queue')
    /\ QueueOf(d)' = QueueOf(d)
    /\ (d \in DOMAIN device_last_seen) <=> (d \in DOMAIN device_last_seen')
    /\ d \in DOMAIN device_last_seen => device_last_seen'[d] = device_last_seen[d]

\* C19: whatever the interleaving of two worker threads, a step of an enqueue
\* or of a poll for a device leaves every other device's queue and last-seen
\* timestamp as they were, a step of an enqueue leaves its own device's
\* last-seen timestamp as it was, and a poll returns only commands that were
\* enqueued for its device.
C19_DevicesIsolated ==
    [][\A t \in Threads :
          /\ (post_command(t) \/ get_commands(t)) =>
                LET a == IF pc[t] = "idle" THEN frame'[t].device_id
                                          ELSE frame[t].device_id
                IN \A b \in Devices \ {a} : Untouched(b)
          /\ post_command(t) => UNCHANGED device_last_seen
          /\ get_commands_return(t) =>
                \A k \in 1..Len(resp'[t].commands) :
                   \E j \in 1..Len(appended) :
                      appended[j] = <<resp'[t].commands[k].id, frame[t].device_id>>]_vars

\* C19 witness: a poll of dev1 has returned dev1's command while dev2, never
\* polled, still has its own command queued.
C19_Witness ==
    /\ \E t \in Threads :
          /\ resp[t].kind = "commands"
          /\ resp[t].device_id = "dev1"
          /\ Len(resp[t].commands) = 1
    /\ Len(QueueOf("dev2")) = 1
    /\ QueueOf("dev1") = <<>>
    /\ DOMAIN device_last_seen = {"dev1"}

\* The file of every blob entry other than that of command id c is the same
\* before and after the step.
OthersStorageKept(c) ==
    \A o \in DOMAIN results_store \ {c} :
       (results_store[o].type = "file" /\ results_store[o].file_path \in DOMAIN files) =>
          /\ results_store[o].file_path \in DOMAIN files'
          /\ files'[results_store[o].file_path] = files[results_store[o].file_path]

\* C20: in every state the file of every blob entry exists; the save of a
\* submit and the release of an eviction leave the file of every entry of
\* another command id as it was; and a fetch never finds the file of the
\* entry it read missing.
C20_BlobStorageIntact ==
    [][/\ \A c \in DOMAIN results_store' :
             results_store'[c].type = "file" =>
                results_store'[c].file_path \in DOMAIN files'
       /\ \A t \in SeqThreads :
             post_result_save(t) => OthersStorageKept(frame[t].command_id)
       /\ cleanup_remove => OthersStorageKept(cleanup.expired[cleanup.i])
       /\ \A t \in SeqThreads :
             get_result_send(t) => resp'[t].value # ServerError]_vars

====
